---- MODULE Spec2Model ----
(***************************************************************************)
(* Model of pkg/kyma/cmd/install/kyma.go: the `kyma install` command.      *)
(*                                                                         *)
(* The command bootstraps the kyma-installer workload (installInstaller),  *)
(* requests the installation (activateInstaller) and then polls the        *)
(* installation resource until it reports a terminal outcome               *)
(* (waitForInstaller).  Every kubectl / docker call of the source is an    *)
(* entry of `log`; the notifications of the step UI (NewStep, Success,     *)
(* Failure), the prints and the sleeps are entries of `log` as well.       *)
(***************************************************************************)
EXTENDS Integers, Sequences, FiniteSets, TLC

VARIABLES
    pc,            \* position of the control thread
    o,             \* the KymaOptions of the command
    files,         \* the fragment files under <src-path>/installation/resources
    installation,  \* the installation/kyma-installation resource: state, description
    status,        \* waitForInstaller: local `status` of the current iteration
    currentDesc,   \* waitForInstaller: local `currentDesc`
    s,             \* waitForInstaller: local `s` (step.Step), Nil or the label it was opened with
    log,           \* every external call, notification, print and sleep so far
    ret,           \* per function of the source: "none" (not returned), "nil", "err", "exit"
    locals,        \* installInstallerFromLocalSources: what loadLocalResources and findInstallerImageName returned
    held           \* history: the contents the installation resource has held while it was tracked

vars == <<pc, o, files, installation, status, currentDesc, s, log, ret, locals, held>>

\* Bound: number of iterations of the poll loop of waitForInstaller.
MaxPolls == 4

\* Values of .status.state that the installer may report; "Unknown" stands for
\* every string that no case of the switch names.
Statuses == {"NotStarted", "InProgress", "Installed", "Error", "Unknown"}

\* Values of .status.description.
Descs == {"step1", "step2"}

\* Every content the installation resource may hold.
Installations == [state : Statuses, description : Descs]

\* The nil step.Step.
Nil == "nil"

\* The argument recorded for a call that returned an error.
Failed == "<error>"

\* One entry of the log.
E(ev, arg) == [ev |-> ev, arg |-> arg]

\* Number of entries of the log with the given event.
Count(l, ev) == Cardinality({i \in DOMAIN l : l[i].ev = ev})

\* The functions of the source whose result is recorded in ret.
Funs == {"Run", "checkReqs", "installTiller", "installInstaller", "installInstallerFromLocalSources",
         "activateInstaller", "waitForInstaller", "printSummary"}

\* Result of a call that either succeeded or returned an error.
Res(ok) == IF ok THEN "ok" ELSE Failed

\* Return value of a function from whether it failed.
RetOf(err) == IF err THEN "err" ELSE "nil"

(***************************************************************************)
(* The options of the command (kyma.go:32-40).  LocalSrcPath is one of:    *)
(* "" (not set), "nodir" (no such directory), "norepo" (a directory        *)
(* without installation/resources), "repo" (a Kyma source tree).           *)
(***************************************************************************)
SrcPaths == {"", "nodir", "norepo", "repo"}

Options == [Local : BOOLEAN, LocalSrcPath : SrcPaths, NoWait : BOOLEAN]

(***************************************************************************)
(* Manifest documents and fragment files.  A document is what              *)
(* yaml.Decoder.Decode yields; of it the code reads kind, metadata.name    *)
(* and the images of spec.template.spec.containers.  `typed` is FALSE for  *)
(* a document whose fields mapstructure.Decode cannot map (kyma.go:253).   *)
(* A file is NoFile (os.Open fails) or a sequence of items, each a         *)
(* document or Malformed (Decode fails on it).                             *)
(***************************************************************************)
Doc(kind, name, images) == [kind |-> kind, name |-> name, images |-> images, typed |-> TRUE]

File(items) == [exists |-> TRUE, items |-> items]

NoFile == [exists |-> FALSE, items |-> <<>>]

Malformed == [kind |-> "<malformed>", name |-> "", images |-> <<>>, typed |-> FALSE]

\* The three fragment files, in the order loadLocalResources reads them (kyma.go:269-279).
FileNames == <<"installer-local.yaml", "installer-config-local.yaml.tpl", "installer-cr.yaml.tpl">>

DocNamespace == Doc("Namespace", "kyma-installer", <<>>)
DocInstaller1 == Doc("Deployment", "kyma-installer", <<"image1", "sidecar">>)
DocInstaller2 == Doc("Deployment", "kyma-installer", <<"image2">>)
DocOtherDeployment == Doc("Deployment", "other", <<"image3">>)
DocConfigMap == Doc("ConfigMap", "kyma-installer", <<>>)
DocInstallation == Doc("Installation", "kyma-installation", <<>>)

\* A Deployment whose fields mapstructure.Decode cannot map (metadata.name or
\* the containers of another type), one named other and one kyma-installer.
DocMistyped == [kind |-> "Deployment", name |-> "other", images |-> <<>>, typed |-> FALSE]
DocInstallerMistyped == [kind |-> "Deployment", name |-> "kyma-installer", images |-> <<>>, typed |-> FALSE]

\* A kyma-installer Deployment whose container list is empty.
DocNoContainers == Doc("Deployment", "kyma-installer", <<>>)

\* The source trees of the model: the content of the three fragment files.
TreeGood == <<File(<<DocNamespace, DocInstaller1>>), File(<<DocConfigMap>>), File(<<DocInstallation>>)>>
TreeDuplicate == <<File(<<DocOtherDeployment, DocInstaller2>>), File(<<DocConfigMap, DocInstaller1>>), File(<<DocInstallation>>)>>
TreeNoDeployment == <<File(<<DocNamespace, DocOtherDeployment>>), File(<<DocConfigMap>>), File(<<DocInstallation>>)>>
TreeMissingFile == <<File(<<DocNamespace, DocInstaller1>>), NoFile, File(<<DocInstallation>>)>>
TreeMalformed == <<File(<<DocNamespace, DocInstaller1>>), File(<<DocConfigMap>>), File(<<DocInstallation, Malformed>>)>>

Trees == {TreeGood, TreeDuplicate, TreeNoDeployment, TreeMissingFile, TreeMalformed}

\* Bound: number of items in the three fragment files together.
MaxDocs == 3

\* The items a fragment file is made of.
Items == {DocConfigMap, DocOtherDeployment, DocInstaller1, DocInstaller2, DocMistyped, DocInstallerMistyped,
          DocNoContainers, Malformed}

\* A source tree of at most MaxDocs items: a sequence of items (ItemSeqs) cut
\* into three files at a and b, the files in `missing` not existing.
Cut(items, a, b, missing) ==
    LET part(k, from, to) == IF k \in missing THEN NoFile ELSE File(SubSeq(items, from, to))
    IN  <<part(1, 1, a), part(2, a + 1, b), part(3, b + 1, Len(items))>>

ItemSeqs == UNION {[1..n -> Items] : n \in 0..MaxDocs}

\* What a loader returns: the documents, or nil and an error.
Loaded(res) == [res |-> res, err |-> FALSE]

LoadError == [res |-> <<>>, err |-> TRUE]

\* The decode loop of loadInstallationResourcesFile (kyma.go:295-304) over the
\* items of a file from item n on: the accumulator with every document
\* appended, or the error of the first malformed item.
RECURSIVE DecodeFrom(_, _, _)
DecodeFrom(items, n, acc) ==
    IF n > Len(items) THEN Loaded(acc)
    ELSE IF items[n] = Malformed THEN LoadError
    ELSE DecodeFrom(items, n + 1, Append(acc, items[n]))

\* loadInstallationResourcesFile (kyma.go:287-306): acc with the documents of
\* the file appended, or an error.
loadInstallationResourcesFile(file, acc) ==
    IF ~file.exists THEN LoadError ELSE DecodeFrom(file.items, 1, acc)

\* loadLocalResources as if the documents read before a failing file were returned.
loadLocalResources_KeepsPartial(tree) ==
    LET r1 == loadInstallationResourcesFile(tree[1], <<>>) IN
    IF r1.err THEN LoadError
    ELSE LET r2 == loadInstallationResourcesFile(tree[2], r1.res) IN
         IF r2.err THEN [res |-> r1.res, err |-> TRUE]
         ELSE LET r3 == loadInstallationResourcesFile(tree[3], r2.res) IN
              IF r3.err THEN [res |-> r2.res, err |-> TRUE] ELSE Loaded(r3.res)

\* loadLocalResources (kyma.go:266-285): the documents of the three files, or an error.
loadLocalResources(tree) ==
    LET r1 == loadInstallationResourcesFile(tree[1], <<>>) IN
    IF r1.err THEN LoadError
    ELSE LET r2 == loadInstallationResourcesFile(tree[2], r1.res) IN
         IF r2.err THEN LoadError
         ELSE LET r3 == loadInstallationResourcesFile(tree[3], r2.res) IN
              IF r3.err THEN LoadError ELSE Loaded(r3.res)

\* findInstallerImageName (kyma.go:235-264) from document n on.  err is "nil",
\* "decode" (mapstructure.Decode failed), "missing" (no kyma-installer
\* deployment) or "panic" (Containers[0] of an empty list).
RECURSIVE FindFrom(_, _)
FindFrom(resources, n) ==
    IF n > Len(resources) THEN [image |-> "", err |-> "missing"]
    ELSE LET res == resources[n] IN
         IF res.kind = "Deployment"
         THEN IF ~res.typed THEN [image |-> "", err |-> "decode"]
              ELSE IF res.name = "kyma-installer"
                   THEN IF res.images = <<>> THEN [image |-> "", err |-> "panic"]
                        ELSE [image |-> res.images[1], err |-> "nil"]
                   ELSE FindFrom(resources, n + 1)
         ELSE FindFrom(resources, n + 1)

\* findInstallerImageName as if the scan ran from the last document backwards.
RECURSIVE FindBack(_, _)
FindBack(resources, n) ==
    IF n = 0 THEN [image |-> "", err |-> "missing"]
    ELSE LET res == resources[n] IN
         IF res.kind = "Deployment"
         THEN IF ~res.typed THEN [image |-> "", err |-> "decode"]
              ELSE IF res.name = "kyma-installer"
                   THEN IF res.images = <<>> THEN [image |-> "", err |-> "panic"]
                        ELSE [image |-> res.images[1], err |-> "nil"]
                   ELSE FindBack(resources, n - 1)
         ELSE FindBack(resources, n - 1)

findInstallerImageName_LastMatch(resources) == FindBack(resources, Len(resources))

findInstallerImageName(resources) == FindFrom(resources, 1)

\* The locals of installInstallerFromLocalSources (kyma.go:215, 220) before
\* either call has returned.
NotCalled == [image |-> "", err |-> "none"]

NoLocals == [loaded |-> LoadError, found |-> NotCalled, called |-> FALSE]

\* The locals of installInstallerFromLocalSources once it has run on a tree;
\* findInstallerImageName is called only when loadLocalResources succeeded.
LocalsOf(tree) ==
    LET load == loadLocalResources(tree)
    IN  [loaded |-> load,
         found  |-> IF load.err THEN NotCalled ELSE findInstallerImageName(load.res),
         called |-> TRUE]

(***************************************************************************)
(* waitForInstaller: the cases of the switch on the polled status          *)
(* (kyma.go:434-469).  Each yields the new locals s and currentDesc, the   *)
(* entries `out` it adds to the log and how the iteration ends: "sleep"    *)
(* (falls out of the switch to time.Sleep), "nil" (return nil), "err"      *)
(* (return err) or "exit" (os.Exit(1)).                                    *)
(***************************************************************************)
Arm(st, cd, out, next) == [s |-> st, currentDesc |-> cd, out |-> out, next |-> next]

\* if s != nil { s.Success() }
SuccessIfOpen(st) == IF st # Nil THEN <<E("Success", st)>> ELSE <<>>

\* if s != nil { s.Failure() }
FailureIfOpen(st) == IF st # Nil THEN <<E("Failure", st)>> ELSE <<>>

\* CaseInstalled as if the arm fell out of the switch to the sleep.
CaseInstalled_KeepsPolling(st, cd) == Arm(st, cd, SuccessIfOpen(st), "sleep")

\* CaseInstalled as if the close of the open notification were forgotten.
CaseInstalled_NoClose(st, cd) == Arm(st, cd, <<>>, "nil")

\* case "Installed" (kyma.go:435-439)
CaseInstalled(st, cd) == Arm(st, cd, SuccessIfOpen(st), "nil")

\* CaseError as if an Error status ended the wait with an error.
CaseError_Fatal(st, cd, desc, logsOk) == Arm(st, cd, FailureIfOpen(st) \o <<E("print_error", desc)>>, "err")

\* case "Error" (kyma.go:441-450); logsOk: whether the kubectl logs call succeeded
CaseError(st, cd, desc, logsOk) ==
    IF logsOk
    THEN Arm(st, cd, FailureIfOpen(st) \o <<E("print_error", desc), E("logs", "ok"), E("print_logs", "")>>, "sleep")
    ELSE Arm(st, cd, FailureIfOpen(st) \o <<E("print_error", desc), E("logs", Failed)>>, "err")

\* case "InProgress" (kyma.go:452-461)
CaseInProgress(st, cd, desc) ==
    IF desc # cd
    THEN IF st # Nil
         THEN Arm(st, cd, <<E("Success", st)>>, "sleep")
         ELSE Arm(desc, desc, <<E("NewStep", desc)>>, "sleep")
    ELSE Arm(st, cd, <<>>, "sleep")

\* CaseDefault as if os.Exit were missing: the iteration falls through to the sleep.
CaseDefault_FallsThrough(st, cd, stat) == Arm(st, cd, FailureIfOpen(st) \o <<E("print_unexpected", stat)>>, "sleep")

\* default (kyma.go:463-469)
CaseDefault(st, cd, stat) == Arm(st, cd, FailureIfOpen(st) \o <<E("print_unexpected", stat), E("Exit", "1")>>, "exit")

\* switch status (kyma.go:434-469)
Switch(stat, desc, st, cd, logsOk) ==
    CASE stat = "Installed"  -> CaseInstalled(st, cd)
      [] stat = "Error"      -> CaseError(st, cd, desc, logsOk)
      [] stat = "InProgress" -> CaseInProgress(st, cd, desc)
      [] OTHER               -> CaseDefault(st, cd, stat)

\* Number of iterations of the poll loop started so far: every status read but
\* the one of the entry check.
Polls(l) == IF Count(l, "get_state") = 0 THEN 0 ELSE Count(l, "get_state") - 1

\* Where the control thread is once waitForInstaller has returned r (kyma.go:124-130).
AfterWait(r) == IF r = "nil" THEN "printSummary" ELSE "done"

\* EntryCheck as if the short-circuit were missing.
EntryCheck_AlwaysLoops(stat) == "loop"

\* The entry check on the first status read (kyma.go:420-422): "nil" is return
\* nil, "loop" is entering the poll loop.
EntryCheck(stat) == IF stat = "Installed" THEN "nil" ELSE "loop"

(***************************************************************************)
(* waitForInstaller, entry check (kyma.go:412-422).                        *)
(***************************************************************************)
WaitEntry ==
    /\ pc = "waitForInstaller"
    /\ \E ok \in BOOLEAN :
         IF ~ok
         THEN /\ log' = Append(log, E("get_state", Failed))
              /\ ret' = [ret EXCEPT !["waitForInstaller"] = "err", !["Run"] = "err"]
              /\ pc' = AfterWait("err")
         ELSE /\ log' = Append(log, E("get_state", installation.state))
              /\ IF EntryCheck(installation.state) = "nil"
                 THEN /\ ret' = [ret EXCEPT !["waitForInstaller"] = "nil"]
                      /\ pc' = AfterWait("nil")
                 ELSE /\ ret' = ret
                      /\ pc' = "poll_status"
    /\ UNCHANGED <<o, files, installation, status, currentDesc, s, locals, held>>

(***************************************************************************)
(* One iteration of the loop, first half: the status read (kyma.go:425-428)*)
(***************************************************************************)
PollStatus ==
    /\ pc = "poll_status"
    /\ Polls(log) < MaxPolls
    /\ \E ok \in BOOLEAN :
         IF ~ok
         THEN /\ log' = Append(log, E("get_state", Failed))
              /\ ret' = [ret EXCEPT !["waitForInstaller"] = "err", !["Run"] = "err"]
              /\ pc' = AfterWait("err")
              /\ status' = status
         ELSE /\ log' = Append(log, E("get_state", installation.state))
              /\ status' = installation.state
              /\ ret' = ret
              /\ pc' = "poll_desc"
    /\ UNCHANGED <<o, files, installation, currentDesc, s, locals, held>>

(***************************************************************************)
(* One iteration of the loop, second half: the description read, the       *)
(* switch and the sleep (kyma.go:429-470).                                 *)
(***************************************************************************)
PollDesc ==
    /\ pc = "poll_desc"
    /\ \E ok \in BOOLEAN, logsOk \in BOOLEAN :
         IF ~ok
         THEN /\ logsOk
              /\ log' = Append(log, E("get_description", Failed))
              /\ ret' = [ret EXCEPT !["waitForInstaller"] = "err", !["Run"] = "err"]
              /\ pc' = AfterWait("err")
              /\ UNCHANGED <<s, currentDesc>>
         ELSE LET r == Switch(status, installation.description, s, currentDesc, logsOk) IN
              /\ logsOk \/ status = "Error"
              /\ s' = r.s
              /\ currentDesc' = r.currentDesc
              /\ IF r.next = "sleep"
                 THEN /\ log' = Append(log, E("get_description", installation.description)) \o r.out \o <<E("Sleep", "5s")>>
                      /\ ret' = ret
                      /\ pc' = "poll_status"
                 ELSE /\ log' = Append(log, E("get_description", installation.description)) \o r.out
                      /\ ret' = [ret EXCEPT !["waitForInstaller"] = r.next,
                                             !["Run"] = IF r.next = "nil" THEN "none" ELSE r.next]
                      /\ pc' = IF r.next = "exit" THEN "exited" ELSE AfterWait(r.next)
    /\ UNCHANGED <<o, files, installation, status, locals, held>>

(***************************************************************************)
(* The installer workload, a process of the cluster: it rewrites the       *)
(* status of the installation resource at any moment of the wait.  This    *)
(* feed is unconstrained: any state and description may follow any other.  *)
(***************************************************************************)
InstallerAny ==
    /\ pc \in {"waitForInstaller", "poll_status", "poll_desc"}
    /\ \E i \in Installations \ {installation} : installation' = i
    /\ UNCHANGED <<pc, o, files, status, currentDesc, s, log, ret, locals, held>>

(***************************************************************************)
(* The bootstrap functions of Run.  Each yields R(out, ret): the entries   *)
(* it adds to the log and what it returns, "nil", "err" or "panic".  The   *)
(* outcome of every external call is a parameter: env.apply, env.build,    *)
(* env.label and env.wait say whether kubectl apply, the image build, the  *)
(* namespace label and WaitForPod succeed; deployed is what IsPodDeployed  *)
(* returns, "true", "false" or Failed.                                     *)
(***************************************************************************)
R(out, r) == [out |-> out, ret |-> r]

Envs == [apply : BOOLEAN, build : BOOLEAN, label : BOOLEAN, wait : BOOLEAN]

Deployeds == {"true", "false", Failed}

\* checkReqs as if the src-path of a local installation were never examined.
checkReqs_NoLocalCheck(opts, kubectlOk) ==
    IF ~kubectlOk THEN R(<<E("CheckKubectlVersion", Failed)>>, "err")
    ELSE IF opts.LocalSrcPath # "" /\ ~opts.Local THEN R(<<E("CheckKubectlVersion", "ok")>>, "err")
    ELSE R(<<E("CheckKubectlVersion", "ok")>>, "nil")

\* checkReqs (kyma.go:138-158); kubectlOk: whether CheckKubectlVersion succeeded.
checkReqs(opts, kubectlOk) ==
    IF ~kubectlOk THEN R(<<E("CheckKubectlVersion", Failed)>>, "err")
    ELSE IF opts.LocalSrcPath # "" /\ ~opts.Local THEN R(<<E("CheckKubectlVersion", "ok")>>, "err")
    ELSE IF opts.Local /\ opts.LocalSrcPath # "repo" THEN R(<<E("CheckKubectlVersion", "ok")>>, "err")
    ELSE R(<<E("CheckKubectlVersion", "ok")>>, "nil")

\* installTiller as if the presence check were ignored: always applies.
installTiller_AlwaysApplies(deployed, env) ==
    IF deployed = Failed THEN R(<<E("IsPodDeployed_tiller", Failed)>>, "err")
    ELSE IF ~env.apply THEN R(<<E("IsPodDeployed_tiller", deployed), E("apply_tiller", Failed)>>, "err")
    ELSE R(<<E("IsPodDeployed_tiller", deployed), E("apply_tiller", "ok"), E("WaitForPod_tiller", Res(env.wait))>>,
           RetOf(~env.wait))

\* installTiller (kyma.go:160-176)
installTiller(deployed, env) ==
    IF deployed = Failed THEN R(<<E("IsPodDeployed_tiller", Failed)>>, "err")
    ELSE IF deployed = "false" /\ ~env.apply THEN R(<<E("IsPodDeployed_tiller", deployed), E("apply_tiller", Failed)>>, "err")
    ELSE R(<<E("IsPodDeployed_tiller", deployed)>>
           \o (IF deployed = "false" THEN <<E("apply_tiller", "ok")>> ELSE <<>>)
           \o <<E("WaitForPod_tiller", Res(env.wait))>>, RetOf(~env.wait))

\* labelInstallerNamespace (kyma.go:345-348)
labelInstallerNamespace(env) == R(<<E("label_namespace", Res(env.label))>>, RetOf(~env.label))

\* installInstallerFromRelease (kyma.go:202-212)
installInstallerFromRelease(env) ==
    IF ~env.apply THEN R(<<E("apply_release", Failed)>>, "err")
    ELSE R(<<E("apply_release", "ok")>> \o labelInstallerNamespace(env).out, labelInstallerNamespace(env).ret)

\* installInstallerFromLocalSources as if the error of findInstallerImageName
\* were not tested: the build runs with whatever image name came back.
installInstallerFromLocalSources_IgnoresFindError(tree, env) ==
    LET load == loadLocalResources(tree) IN
    IF load.err THEN R(<<E("loadLocalResources", Failed)>>, "err")
    ELSE LET found == findInstallerImageName(load.res) IN
         IF found.err = "panic" THEN R(<<E("loadLocalResources", "ok"), E("findInstallerImageName", "panic")>>, "panic")
         ELSE IF ~env.build THEN R(<<E("loadLocalResources", "ok"), E("findInstallerImageName", found.image), E("build", Failed)>>, "err")
         ELSE R(<<E("loadLocalResources", "ok"), E("findInstallerImageName", found.image), E("build", "ok"),
                  E("apply_local", Res(env.apply))>> \o labelInstallerNamespace(env).out, labelInstallerNamespace(env).ret)

\* installInstallerFromLocalSources (kyma.go:214-233): the error of
\* applyKymaInstaller is assigned at line 230 and never tested.
installInstallerFromLocalSources(tree, env) ==
    LET load == loadLocalResources(tree) IN
    IF load.err THEN R(<<E("loadLocalResources", Failed)>>, "err")
    ELSE LET found == findInstallerImageName(load.res) IN
         IF found.err = "panic" THEN R(<<E("loadLocalResources", "ok"), E("findInstallerImageName", "panic")>>, "panic")
         ELSE IF found.err # "nil" THEN R(<<E("loadLocalResources", "ok"), E("findInstallerImageName", found.err)>>, "err")
         ELSE IF ~env.build THEN R(<<E("loadLocalResources", "ok"), E("findInstallerImageName", found.image), E("build", Failed)>>, "err")
         ELSE R(<<E("loadLocalResources", "ok"), E("findInstallerImageName", found.image), E("build", "ok"),
                  E("apply_local", Res(env.apply))>> \o labelInstallerNamespace(env).out, labelInstallerNamespace(env).ret)

\* installInstaller as if the Local option were ignored: the release path always.
installInstaller_AlwaysRelease(opts, tree, deployed, env) ==
    LET prov == IF deployed = "false" THEN installInstallerFromRelease(env) ELSE R(<<>>, "nil") IN
    IF deployed = Failed THEN R(<<E("IsPodDeployed_installer", Failed)>>, "err")
    ELSE IF prov.ret # "nil" THEN R(<<E("IsPodDeployed_installer", deployed)>> \o prov.out, prov.ret)
    ELSE R(<<E("IsPodDeployed_installer", deployed)>> \o prov.out \o <<E("WaitForPod_installer", Res(env.wait))>>, RetOf(~env.wait))

\* installInstaller as if the presence check were ignored: always provisions.
installInstaller_AlwaysProvisions(opts, tree, deployed, env) ==
    LET prov == IF opts.Local THEN installInstallerFromLocalSources(tree, env) ELSE installInstallerFromRelease(env) IN
    IF deployed = Failed THEN R(<<E("IsPodDeployed_installer", Failed)>>, "err")
    ELSE IF prov.ret # "nil" THEN R(<<E("IsPodDeployed_installer", deployed)>> \o prov.out, prov.ret)
    ELSE R(<<E("IsPodDeployed_installer", deployed)>> \o prov.out \o <<E("WaitForPod_installer", Res(env.wait))>>, RetOf(~env.wait))

\* installInstaller (kyma.go:178-200)
installInstaller(opts, tree, deployed, env) ==
    LET prov == IF deployed = "false"
                THEN IF opts.Local THEN installInstallerFromLocalSources(tree, env) ELSE installInstallerFromRelease(env)
                ELSE R(<<>>, "nil")
    IN  IF deployed = Failed THEN R(<<E("IsPodDeployed_installer", Failed)>>, "err")
        ELSE IF prov.ret # "nil" THEN R(<<E("IsPodDeployed_installer", deployed)>> \o prov.out, prov.ret)
        ELSE R(<<E("IsPodDeployed_installer", deployed)>> \o prov.out \o <<E("WaitForPod_installer", Res(env.wait))>>, RetOf(~env.wait))

\* activateInstaller as if the InProgress test were missing: always labels.
activateInstaller_AlwaysLabels(readOk, stat, labelOk) ==
    IF ~readOk THEN R(<<E("activate_get_state", Failed)>>, "err")
    ELSE R(<<E("activate_get_state", stat), E("label_action", Res(labelOk))>>, RetOf(~labelOk))

\* activateInstaller (kyma.go:350-364); stat: the state read when readOk;
\* label_action is the write `label installation/kyma-installation action=install`.
activateInstaller(readOk, stat, labelOk) ==
    IF ~readOk THEN R(<<E("activate_get_state", Failed)>>, "err")
    ELSE IF stat = "InProgress" THEN R(<<E("activate_get_state", stat)>>, "nil")
    ELSE R(<<E("activate_get_state", stat), E("label_action", Res(labelOk))>>, RetOf(~labelOk))

\* printSummary (kyma.go:366-409); ok: whether all its reads and decodings succeeded.
printSummary(ok) == R(<<E("printSummary", Res(ok))>>, RetOf(~ok))

(***************************************************************************)
(* Run (kyma.go:83-136), one action per step.  RunStep is the frame of a   *)
(* step: NewStep, the call, then Failure and return err, or Success and    *)
(* the next step.  A panic ends the process before Failure is called.      *)
(***************************************************************************)
RunStep(fn, title, r, next) ==
    /\ log' = log \o <<E("Run.NewStep", title)>> \o r.out
                  \o (IF r.ret = "nil" THEN <<E("Run.Success", title)>>
                      ELSE IF r.ret = "err" THEN <<E("Run.Failure", title)>> ELSE <<>>)
    /\ ret' = [ret EXCEPT ![fn] = r.ret, !["Run"] = IF r.ret = "nil" THEN "none" ELSE r.ret]
    /\ pc' = IF r.ret = "nil" THEN next ELSE IF r.ret = "err" THEN "done" ELSE "exited"
    /\ UNCHANGED <<o, files, installation, status, currentDesc, s, held>>

\* kyma.go:84-90
CheckReqs ==
    /\ pc = "checkReqs"
    /\ \E ok \in BOOLEAN : RunStep("checkReqs", "Checking requirements", checkReqs(o, ok), "installTiller")
    /\ UNCHANGED locals

\* kyma.go:99-105
InstallTiller ==
    /\ pc = "installTiller"
    /\ \E d \in Deployeds, env \in Envs :
         RunStep("installTiller", "Installing tiller", installTiller(d, env), "installInstaller")
    /\ UNCHANGED locals

\* kyma.go:107-113
InstallInstaller ==
    /\ pc = "installInstaller"
    /\ \E d \in Deployeds, env \in Envs :
         /\ RunStep("installInstaller", "Installing kyma-installer", installInstaller(o, files, d, env), "activateInstaller")
         /\ locals' = IF d = "false" /\ o.Local THEN LocalsOf(files) ELSE locals

\* kyma.go:115-128
ActivateInstaller ==
    /\ pc = "activateInstaller"
    /\ \E readOk \in BOOLEAN, labelOk \in BOOLEAN :
         RunStep("activateInstaller", "Requesting kyma-installer to install kyma",
                 activateInstaller(readOk, installation.state, labelOk),
                 IF o.NoWait THEN "printSummary" ELSE "waitForInstaller")
    /\ UNCHANGED locals

\* kyma.go:130-135
PrintSummary ==
    /\ pc = "printSummary"
    /\ \E ok \in BOOLEAN :
         /\ log' = log \o printSummary(ok).out
         /\ ret' = [ret EXCEPT !["printSummary"] = printSummary(ok).ret, !["Run"] = printSummary(ok).ret]
         /\ pc' = "done"
    /\ UNCHANGED <<o, files, installation, status, currentDesc, s, locals, held>>

(***************************************************************************)
(* The installer workload as the specification describes its life cycle:   *)
(* NotStarted -> InProgress -> {Installed | Error}, phase by phase, an     *)
(* Error being retried.  A state that is none of these (Unknown) is left   *)
(* for InProgress like NotStarted.                                         *)
(***************************************************************************)
InstallerSteps(i) ==
    CASE i.state \in {"NotStarted", "Unknown"} -> {[state |-> "InProgress", description |-> "step1"]}
      [] i.state = "InProgress" /\ i.description = "step1" ->
            {[state |-> "InProgress", description |-> "step2"], [state |-> "Error", description |-> "step1"]}
      [] i.state = "InProgress" /\ i.description = "step2" ->
            {[state |-> "Installed", description |-> "step2"], [state |-> "Error", description |-> "step2"]}
      [] i.state = "Error" -> {[state |-> "InProgress", description |-> i.description]}
      [] OTHER -> {}

InstallerProgress ==
    /\ pc \in {"activateInstaller", "waitForInstaller", "poll_status", "poll_desc"}
    /\ \E i \in InstallerSteps(installation) : installation' = i
    /\ UNCHANGED <<pc, o, files, status, currentDesc, s, log, ret, locals, held>>

\* The files under <src-path>/installation/resources: a source tree when
\* src-path is a repository, no file otherwise.
NoTree == <<NoFile, NoFile, NoFile>>

TreesAt(path) == IF path = "repo" THEN Trees ELSE {NoTree}

Init ==
    /\ pc = "checkReqs"
    /\ o \in Options
    /\ files \in TreesAt(o.LocalSrcPath)
    /\ installation \in Installations
    /\ status = ""
    /\ currentDesc = ""
    /\ s = Nil
    /\ log = <<>>
    /\ ret = [f \in Funs |-> "none"]
    /\ locals = NoLocals
    /\ held = {}

Next ==
    \/ CheckReqs
    \/ InstallTiller
    \/ InstallInstaller
    \/ ActivateInstaller
    \/ WaitEntry
    \/ PollStatus
    \/ PollDesc
    \/ PrintSummary
    \/ InstallerProgress

Spec == Init /\ [][Next]_vars

\* waitForInstaller on its own, as Run calls it at kyma.go:124 with the steps
\* before it left out: its locals as declared at kyma.go:412-413, the
\* installation resource holding any content.
InitMonitor ==
    /\ pc = "waitForInstaller"
    /\ o = [Local |-> FALSE, LocalSrcPath |-> "", NoWait |-> FALSE]
    /\ files = NoTree
    /\ installation \in Installations
    /\ status = ""
    /\ currentDesc = ""
    /\ s = Nil
    /\ log = <<>>
    /\ ret = [f \in Funs |-> "none"]
    /\ locals = NoLocals
    /\ held = {}

NextMonitor == WaitEntry \/ PollStatus \/ PollDesc \/ InstallerAny

SpecMonitor == InitMonitor /\ [][NextMonitor]_vars

\* installInstallerFromLocalSources on its own, as installInstaller calls it
\* at kyma.go:185 in local mode, over every source tree of the bound.
InitLocal ==
    /\ pc = "installInstallerFromLocalSources"
    /\ o = [Local |-> TRUE, LocalSrcPath |-> "repo", NoWait |-> FALSE]
    /\ \E items \in ItemSeqs, missing \in SUBSET {1, 2, 3} :
         \E a \in 0..Len(items) : \E b \in a..Len(items) : files = Cut(items, a, b, missing)
    /\ installation = [state |-> "NotStarted", description |-> "step1"]
    /\ status = ""
    /\ currentDesc = ""
    /\ s = Nil
    /\ log = <<>>
    /\ ret = [f \in Funs |-> "none"]
    /\ locals = NoLocals
    /\ held = {}

\* kyma.go:214-233
InstallInstallerFromLocalSources ==
    /\ pc = "installInstallerFromLocalSources"
    /\ \E env \in Envs :
         LET r == installInstallerFromLocalSources(files, env) IN
         /\ log' = log \o r.out
         /\ ret' = [ret EXCEPT !["installInstallerFromLocalSources"] = r.ret]
         /\ pc' = IF r.ret = "panic" THEN "exited" ELSE "done"
    /\ locals' = LocalsOf(files)
    /\ UNCHANGED <<o, files, installation, status, currentDesc, s, held>>

NextLocal == InstallInstallerFromLocalSources

SpecLocal == InitLocal /\ [][NextLocal]_vars

(***************************************************************************)
(* waitForInstaller without a bound on its polls, every cluster read       *)
(* succeeding and the installer reporting InProgress, Error or Installed   *)
(* only.  The steps are those of WaitEntry, PollStatus and PollDesc with   *)
(* the reads that succeed; the log is not kept, so that the loop can turn  *)
(* for ever in finitely many states.  The monitor is one goroutine that    *)
(* the scheduler keeps running and time.Sleep returns, hence the weak      *)
(* fairness of its steps; nothing is assumed of the installer.             *)
(***************************************************************************)
LiveStatuses == {"InProgress", "Error", "Installed"}

LiveInstallations == [state : LiveStatuses, description : Descs]

\* kyma.go:412-422
WaitEntryLive ==
    /\ pc = "waitForInstaller"
    /\ IF EntryCheck(installation.state) = "nil"
       THEN /\ ret' = [ret EXCEPT !["waitForInstaller"] = "nil"]
            /\ pc' = AfterWait("nil")
       ELSE /\ ret' = ret
            /\ pc' = "poll_status"
    /\ UNCHANGED <<o, files, installation, status, currentDesc, s, log, locals, held>>

\* kyma.go:425-428
PollStatusLive ==
    /\ pc = "poll_status"
    /\ status' = installation.state
    /\ pc' = "poll_desc"
    /\ UNCHANGED <<o, files, installation, currentDesc, s, log, ret, locals, held>>

\* kyma.go:429-470
PollDescLive ==
    /\ pc = "poll_desc"
    /\ LET r == Switch(status, installation.description, s, currentDesc, TRUE) IN
       /\ s' = r.s
       /\ currentDesc' = r.currentDesc
       /\ IF r.next = "sleep"
          THEN /\ ret' = ret
               /\ pc' = "poll_status"
          ELSE /\ ret' = [ret EXCEPT !["waitForInstaller"] = r.next,
                                      !["Run"] = IF r.next = "nil" THEN "none" ELSE r.next]
               /\ pc' = IF r.next = "exit" THEN "exited" ELSE AfterWait(r.next)
    /\ UNCHANGED <<o, files, installation, status, log, locals, held>>

\* The installer rewriting the status at any moment, within LiveStatuses.
InstallerLive ==
    /\ \E i \in LiveInstallations \ {installation} : installation' = i
    /\ UNCHANGED <<pc, o, files, status, currentDesc, s, log, ret, locals, held>>

InitLive ==
    /\ pc = "waitForInstaller"
    /\ o = [Local |-> FALSE, LocalSrcPath |-> "", NoWait |-> FALSE]
    /\ files = NoTree
    /\ installation \in LiveInstallations
    /\ status = ""
    /\ currentDesc = ""
    /\ s = Nil
    /\ log = <<>>
    /\ ret = [f \in Funs |-> "none"]
    /\ locals = NoLocals
    /\ held = {}

NextLive == WaitEntryLive \/ PollStatusLive \/ PollDescLive \/ InstallerLive

SpecLive ==
    /\ InitLive
    /\ [][NextLive]_vars
    /\ WF_vars(WaitEntryLive)
    /\ WF_vars(PollStatusLive)
    /\ WF_vars(PollDescLive)

(***************************************************************************)
(* waitForInstaller beside an installer whose writes are tracked: held is  *)
(* the set of contents the installation resource has had since the wait    *)
(* began, each write replacing state and description together and         *)
(* following the life cycle of InstallerSteps.                             *)
(***************************************************************************)
InstallerTracked ==
    /\ pc \in {"waitForInstaller", "poll_status", "poll_desc"}
    /\ \E i \in InstallerSteps(installation) :
         /\ installation' = i
         /\ held' = held \cup {i}
    /\ UNCHANGED <<pc, o, files, status, currentDesc, s, log, ret, locals>>

InitSnapshot ==
    /\ pc = "waitForInstaller"
    /\ o = [Local |-> FALSE, LocalSrcPath |-> "", NoWait |-> FALSE]
    /\ files = NoTree
    /\ installation \in Installations
    /\ status = ""
    /\ currentDesc = ""
    /\ s = Nil
    /\ log = <<>>
    /\ ret = [f \in Funs |-> "none"]
    /\ locals = NoLocals
    /\ held = {installation}

NextSnapshot == WaitEntry \/ PollStatus \/ PollDesc \/ InstallerTracked

SpecSnapshot == InitSnapshot /\ [][NextSnapshot]_vars

(***************************************************************************)
(* Reading the log.                                                        *)
(***************************************************************************)
\* The notifications of the step UI.
Closes == {"Success", "Failure"}

\* The statuses the specification names as recognised.
Recognised == {"NotStarted", "InProgress", "Installed", "Error"}

\* The iterations of the poll loop that reached the switch: the indices of the
\* description reads that succeeded.  The status the switch dispatches on is
\* the entry before, the description the entry itself.
Dispatched(l) == {i \in DOMAIN l : l[i].ev = "get_description" /\ l[i].arg # Failed}

\* The entries the iteration dispatched at i added after its two reads: up to
\* the next status read, or to the end of the log.
Seg(l, i) ==
    LET later == {j \in DOMAIN l : j > i /\ l[j].ev = "get_state"}
        stop  == IF later = {} THEN Len(l) + 1 ELSE CHOOSE j \in later : \A k \in later : j <= k
    IN  SubSeq(l, i + 1, stop - 1)

\* Whether a notification is open (opened and not closed since) before entry i.
OpenAt(l, i) ==
    \E j \in 1..(i - 1) :
        /\ l[j].ev = "NewStep"
        /\ \A k \in (j + 1)..(i - 1) : l[k].ev \notin Closes \cup {"NewStep"}

\* The (status, description) pairs the switch dispatched on, in order.
RECURSIVE PolledUpTo(_, _)
PolledUpTo(l, n) ==
    IF n = 0 THEN <<>>
    ELSE IF n \in Dispatched(l)
         THEN Append(PolledUpTo(l, n - 1), <<l[n - 1].arg, l[n].arg>>)
         ELSE PolledUpTo(l, n - 1)

Polled(l) == PolledUpTo(l, Len(l))

\* The events of the given kind in a sequence of entries.
Only(l, evs) == SelectSeq(l, LAMBDA e : e.ev \in evs)

(***************************************************************************)
(* Claims about waitForInstaller, checked under SpecMonitor.               *)
(***************************************************************************)

\* The polled sequence of the progress-dedup scenario.
DedupScenario == << <<"InProgress", "step1">>, <<"InProgress", "step1">>, <<"InProgress", "step2">>, <<"Installed", "step2">> >>

\* C1: once the monitor has polled InProgress("step1"), InProgress("step1"),
\* InProgress("step2"), Installed, it has opened exactly two progress
\* notifications, one labelled step1 and then one labelled step2, and has
\* emitted exactly two success closes, the last one being the final one.
C1_DedupScenarioOpensTwo ==
    Polled(log) = DedupScenario =>
        /\ Only(log, {"NewStep"}) = <<E("NewStep", "step1"), E("NewStep", "step2")>>
        /\ Count(log, "Success") = 2
        /\ Count(log, "Failure") = 0
        /\ log[Len(log)].ev = "Success"

\* What the code does in the scenario of C1: one open, two success closes on it.
C1_CodeOpensOnce ==
    Polled(log) = DedupScenario =>
        /\ Only(log, {"NewStep"}) = <<E("NewStep", "step1")>>
        /\ Only(log, Closes) = <<E("Success", "step1"), E("Success", "step1")>>

\* C2: an iteration that polls InProgress with the description d that the
\* iteration before it polled with InProgress too emits no notification and
\* leaves the cursor (currentDesc, s) as it was.
C2_RepeatedDescriptionIsSilent ==
    [][(/\ pc = "poll_desc"
        /\ pc' = "poll_status"
        /\ status = "InProgress"
        /\ Polled(log) # <<>>
        /\ Polled(log)[Len(Polled(log))] = <<"InProgress", installation.description>>)
       => (/\ Only(SubSeq(log', Len(log) + 1, Len(log')), Closes \cup {"NewStep"}) = <<>>
           /\ s' = s
           /\ currentDesc' = currentDesc)]_vars

\* C5: an iteration whose switch dispatches on a status outside NotStarted,
\* InProgress, Installed, Error closes the open notification (if any) as
\* failed, prints the unexpected status and exits the process: the log ends
\* there (no sleep, no further read) and waitForInstaller never returns.
C5_UnexpectedStatusExits ==
    \A i \in Dispatched(log) :
        log[i - 1].arg \notin Recognised =>
            /\ \/ Seg(log, i) = <<E("print_unexpected", log[i - 1].arg), E("Exit", "1")>>
               \/ Seg(log, i) = <<E("Failure", s), E("print_unexpected", log[i - 1].arg), E("Exit", "1")>>
            /\ OpenAt(log, i) => Seg(log, i)[1].ev = "Failure"
            /\ Len(log) = i + Len(Seg(log, i))
            /\ pc = "exited"
            /\ ret["waitForInstaller"] = "exit"

\* C5 witness: the process has exited on an unexpected status polled while a
\* notification was open, which was closed as failed.
C5_Witness ==
    /\ pc = "exited"
    /\ \E i \in Dispatched(log) :
          /\ log[i - 1].arg = "Unknown"
          /\ OpenAt(log, i)
          /\ Seg(log, i)[1] = E("Failure", s)

\* C6: an iteration whose switch dispatches on NotStarted does not exit: it
\* emits nothing and sleeps.
C6_NotStartedKeepsPolling ==
    \A i \in Dispatched(log) :
        log[i - 1].arg = "NotStarted" => Seg(log, i) = <<E("Sleep", "5s")>>

\* C7: when the first status read returns Installed, waitForInstaller has
\* returned nil and that read is all it did: no description read, no
\* notification, no sleep.
C7_InstalledAtEntryReturns ==
    (log # <<>> /\ log[1] = E("get_state", "Installed")) =>
        /\ log = <<E("get_state", "Installed")>>
        /\ ret["waitForInstaller"] = "nil"
        /\ pc = "printSummary"

\* C7 witness: the entry check has read Installed.
C7_Witness == log = <<E("get_state", "Installed")>> /\ ret["waitForInstaller"] = "nil"

\* C8 as claimed: every iteration whose switch dispatches on Error closes the
\* open notification (if any) as failed, prints the description and the
\* installer log, and goes on to the sleep.
C8_ErrorNeverEndsTheWait ==
    \A i \in Dispatched(log) :
        log[i - 1].arg = "Error" =>
            /\ \/ Seg(log, i) = <<E("print_error", log[i].arg), E("logs", "ok"), E("print_logs", ""), E("Sleep", "5s")>>
               \/ Seg(log, i) = <<E("Failure", s), E("print_error", log[i].arg), E("logs", "ok"), E("print_logs", ""), E("Sleep", "5s")>>
            /\ OpenAt(log, i) => Seg(log, i)[1].ev = "Failure"

\* C8 as amended: every iteration whose switch dispatches on Error closes the
\* open notification (if any) as failed and prints the description; when the
\* read of the installer log succeeds it prints the log and goes on to the
\* sleep, and when that read fails waitForInstaller returns the error there.
C8_ErrorContinuesUnlessLogsFail ==
    \A i \in Dispatched(log) :
        log[i - 1].arg = "Error" =>
            LET seg  == Seg(log, i)
                body == IF seg # <<>> /\ seg[1].ev = "Failure" THEN Tail(seg) ELSE seg
            IN  /\ OpenAt(log, i) => (seg[1] = E("Failure", s))
                /\ (seg # <<>> /\ seg[1].ev = "Failure") => seg[1].arg = s
                /\ \/ body = <<E("print_error", log[i].arg), E("logs", "ok"), E("print_logs", ""), E("Sleep", "5s")>>
                   \/ /\ body = <<E("print_error", log[i].arg), E("logs", Failed)>>
                      /\ Len(log) = i + Len(seg)
                      /\ ret["waitForInstaller"] = "err"

\* C8 witness: two iterations in a row dispatched on Error, the first with a
\* notification open, and the monitor is about to poll again.
C8_Witness ==
    /\ pc = "poll_status"
    /\ ret["waitForInstaller"] = "none"
    /\ \E i, j \in Dispatched(log) :
          /\ i < j
          /\ \A k \in Dispatched(log) : ~(i < k /\ k < j)
          /\ log[i - 1].arg = "Error"
          /\ log[j - 1].arg = "Error"
          /\ OpenAt(log, i)

\* The index of the last status read of the log.
LastStatusRead(l) == CHOOSE i \in DOMAIN l : l[i].ev = "get_state" /\ \A k \in DOMAIN l : l[k].ev = "get_state" => k <= i

\* C9: waitForInstaller has returned nil only if its last status read returned
\* Installed; in the loop, that iteration closed the open notification (if
\* any) as successful and did nothing else after its reads: no sleep.
C9_NilOnlyOnInstalled ==
    ret["waitForInstaller"] = "nil" =>
        LET n == LastStatusRead(log) IN
        /\ log[n].arg = "Installed"
        /\ \/ n = 1 /\ Len(log) = 1
           \/ /\ n > 1
              /\ n + 1 \in Dispatched(log)
              /\ Seg(log, n + 1) \in {<<>>, <<E("Success", s)>>}
              /\ OpenAt(log, n + 1) => Seg(log, n + 1) = <<E("Success", s)>>
              /\ Len(log) = n + 1 + Len(Seg(log, n + 1))

\* C9 witness: nil returned from the loop with a notification open at the
\* final iteration, closed as successful.
C9_Witness ==
    /\ ret["waitForInstaller"] = "nil"
    /\ Len(log) > 1
    /\ OpenAt(log, Len(log))
    /\ log[Len(log)] = E("Success", s)

(***************************************************************************)
(* Claims about installInstaller and activateInstaller, checked under Spec.*)
(***************************************************************************)

\* The calls of installInstaller and of the functions it calls.
InstallerCalls == {"IsPodDeployed_installer", "loadLocalResources", "findInstallerImageName", "build",
                   "apply_release", "apply_local", "label_namespace", "WaitForPod_installer"}

\* The results that are the failure of a call.
Failures == {Failed, "missing", "decode", "panic"}

\* The calls installInstaller has made, in order.
InstallerLog == Only(log, InstallerCalls)

\* C3: a call of installInstaller that failed is the last call it made, and
\* installInstaller returned an error; so a failed apply of the aggregated
\* manifests is followed by no namespace label and no readiness wait.
C3_FailedStepAborts ==
    \A i \in DOMAIN InstallerLog :
        InstallerLog[i].arg \in Failures =>
            /\ i = Len(InstallerLog)
            /\ ret["installInstaller"] \in {"err", "panic"}

\* What the code does instead: every failed call but apply_local is the last
\* one and makes installInstaller fail; a failed apply_local is followed by
\* the namespace label.
C3_CodeIgnoresLocalApplyError ==
    \A i \in DOMAIN InstallerLog :
        InstallerLog[i].arg \in Failures =>
            IF InstallerLog[i].ev = "apply_local"
            THEN i < Len(InstallerLog) /\ InstallerLog[i + 1].ev = "label_namespace"
            ELSE i = Len(InstallerLog) /\ ret["installInstaller"] \in {"err", "panic"}

\* C4: once activateInstaller has read the state, it has returned; if the
\* state was InProgress it wrote nothing and returned nil, and otherwise it
\* issued exactly one write, the action label, right after the read, and
\* returned that write's result.
C4_ActivationWritesUnlessInProgress ==
    \A i \in DOMAIN log :
        (log[i].ev = "activate_get_state" /\ log[i].arg # Failed) =>
            IF log[i].arg = "InProgress"
            THEN /\ Count(log, "label_action") = 0
                 /\ log[i + 1] = E("Run.Success", "Requesting kyma-installer to install kyma")
                 /\ ret["activateInstaller"] = "nil"
            ELSE /\ Count(log, "label_action") = 1
                 /\ log[i + 1].ev = "label_action"
                 /\ ret["activateInstaller"] = RetOf(log[i + 1].arg = Failed)

\* C4 witness: activateInstaller has returned nil on a cluster where the state
\* is InProgress, having written nothing.
C4_Witness ==
    /\ ret["activateInstaller"] = "nil"
    /\ \E i \in DOMAIN log : log[i] = E("activate_get_state", "InProgress")
    /\ Count(log, "label_action") = 0

\* C10: when IsPodDeployed reports the installer as deployed, the calls of
\* installInstaller are that query and the readiness wait, nothing else.
C10_DeployedInstallerIsNotProvisioned ==
    (InstallerLog # <<>> /\ InstallerLog[1] = E("IsPodDeployed_installer", "true")) =>
        /\ Len(InstallerLog) = 2
        /\ InstallerLog[2].ev = "WaitForPod_installer"
        /\ ret["installInstaller"] = RetOf(InstallerLog[2].arg = Failed)

\* C10 witness: installInstaller has returned nil on a cluster with the
\* installer deployed, in local mode (where provisioning would have built).
C10_Witness ==
    /\ o.Local
    /\ ret["installInstaller"] = "nil"
    /\ InstallerLog = <<E("IsPodDeployed_installer", "true"), E("WaitForPod_installer", "ok")>>

\* C11: when IsPodDeployed reports the installer as absent, installInstaller
\* has entered exactly one provisioning path: the local one (which starts
\* with loadLocalResources) when Local is set and never the release apply,
\* the release apply when Local is not set and never the local one.
C11_ExactlyOnePath ==
    (InstallerLog # <<>> /\ InstallerLog[1] = E("IsPodDeployed_installer", "false")) =>
        IF o.Local
        THEN Count(log, "loadLocalResources") = 1 /\ Count(log, "apply_release") = 0
        ELSE /\ Count(log, "apply_release") = 1
             /\ Only(log, {"loadLocalResources", "findInstallerImageName", "build", "apply_local"}) = <<>>

\* C11 witness: the installer was absent in local mode and the local path ran
\* to its apply.
C11_Witness ==
    /\ o.Local
    /\ InstallerLog # <<>>
    /\ InstallerLog[1] = E("IsPodDeployed_installer", "false")
    /\ Count(log, "apply_local") = 1

\* The configurations checkReqs has to reject: a src-path without local mode,
\* local mode without a src-path, a src-path that does not exist or is not a
\* repository.
InvalidConfig ==
    \/ o.LocalSrcPath # "" /\ ~o.Local
    \/ o.Local /\ o.LocalSrcPath = ""
    \/ o.Local /\ o.LocalSrcPath \in {"nodir", "norepo"}

\* The calls that change the cluster or the build service.
MutatingCalls == {"apply_tiller", "apply_release", "apply_local", "build", "label_namespace", "label_action"}

\* C16: with a configuration checkReqs has to reject, no mutating call (apply,
\* label, build, activation) is ever issued, and once checkReqs has run Run
\* has returned an error with nothing started after it.
C16_RejectedConfigChangesNothing ==
    InvalidConfig =>
        /\ Only(log, MutatingCalls) = <<>>
        /\ ret["checkReqs"] # "none" =>
             /\ ret["checkReqs"] = "err"
             /\ ret["Run"] = "err"
             /\ pc = "done"
             /\ log[Len(log)] = E("Run.Failure", "Checking requirements")

\* C16 witness: kubectl is usable, the src-path is not a repository, and
\* checkReqs has rejected it.
C16_Witness ==
    /\ o.Local /\ o.LocalSrcPath = "norepo"
    /\ Count(log, "CheckKubectlVersion") = 1
    /\ \E i \in 1..Len(log) : log[i] = E("CheckKubectlVersion", "ok")
    /\ ret["Run"] = "err"

\* C17: no Success and no Failure is emitted on a notification that has
\* already been closed: every close in the log of waitForInstaller finds a
\* notification that was opened and not closed since.
C17_ClosedAtMostOnce ==
    \A i \in DOMAIN log : log[i].ev \in Closes => OpenAt(log, i)

\* The steps of Run in the order of its body, and the step an entry of the
\* log belongs to.
RunSteps == <<"checkReqs", "installTiller", "installInstaller", "activateInstaller", "waitForInstaller", "printSummary">>

StepTitles == <<"Checking requirements", "Installing tiller", "Installing kyma-installer",
                "Requesting kyma-installer to install kyma">>

StepOf(e) ==
    IF e.ev \in {"Run.NewStep", "Run.Success", "Run.Failure"}
    THEN CHOOSE k \in 1..4 : StepTitles[k] = e.arg
    ELSE CASE e.ev = "CheckKubectlVersion" -> 1
           [] e.ev \in {"IsPodDeployed_tiller", "apply_tiller", "WaitForPod_tiller"} -> 2
           [] e.ev \in InstallerCalls -> 3
           [] e.ev \in {"activate_get_state", "label_action"} -> 4
           [] e.ev = "printSummary" -> 6
           [] OTHER -> 5

\* The order of Run alone: the entries of the log never go back to an earlier
\* step, a step has run only if every step before it returned nil (the wait
\* being skipped with NoWait), and the activation write follows a nil
\* return of installInstaller.
C15_StepsInOrder ==
    /\ \A a, b \in DOMAIN log : a < b => StepOf(log[a]) <= StepOf(log[b])
    /\ \A i, j \in 1..6 :
         (i < j /\ ret[RunSteps[j]] # "none") =>
             \/ ret[RunSteps[i]] = "nil"
             \/ i = 5 /\ o.NoWait /\ ret[RunSteps[i]] = "none"
    /\ Count(log, "label_action") > 0 => ret["installInstaller"] = "nil"
    /\ Count(log, "get_state") > 0 => ret["activateInstaller"] = "nil"

\* Whether installInstaller left the installer manifest applied where it was
\* needed and the workload ready.
InstallerApplied ==
    /\ \E i \in DOMAIN log : log[i] = E("WaitForPod_installer", "ok")
    /\ (\E i \in DOMAIN log : log[i] = E("IsPodDeployed_installer", "false")) =>
           \E i \in DOMAIN log : log[i] \in {E("apply_release", "ok"), E("apply_local", "ok")}

\* C15: Run's steps follow in order without back-edges, a failed step ends
\* the run, the monitor starts only after activateInstaller returned nil, and
\* the activation write is issued only after installInstaller returned nil
\* with the manifest applied where needed and the workload ready.
C15_RunOrder ==
    /\ C15_StepsInOrder
    /\ Count(log, "label_action") > 0 => InstallerApplied

\* The rerun against a completed installation: tiller and the installer
\* were found deployed and activateInstaller read the status Installed.
Rerun ==
    /\ \E i \in DOMAIN log : log[i] = E("IsPodDeployed_tiller", "true")
    /\ \E i \in DOMAIN log : log[i] = E("IsPodDeployed_installer", "true")
    /\ \E i \in DOMAIN log : log[i] = E("activate_get_state", "Installed")

\* The monitor of a rerun, when its entry check read Installed, returned nil
\* on that one read.
RerunEntryCheck ==
    (\E i \in DOMAIN log : log[i] = E("get_state", "Installed")) =>
        /\ Count(log, "get_state") = 1
        /\ Count(log, "get_description") = 0
        /\ ret["waitForInstaller"] = "nil"

\* C20 as stated: a rerun against a completed installation issues no write
\* at all (no apply, no namespace label, no action label) and the monitor
\* returns nil at its entry check.
C20_RerunWritesNothing ==
    Rerun => Only(log, MutatingCalls) = <<>> /\ RerunEntryCheck

\* C20 amended: a rerun against a completed installation issues no apply, no
\* build and no namespace label, but it does write the action label once,
\* Installed not being InProgress; the monitor returns nil at its entry check
\* when that check reads Installed.
C20_RerunWritesOnlyTheActionLabel ==
    Rerun =>
        /\ Only(log, MutatingCalls \ {"label_action"}) = <<>>
        /\ Count(log, "label_action") = 1
        /\ RerunEntryCheck

\* C20 witness: the rerun wrote the action label and the monitor returned nil
\* at its entry check.
C20_Witness ==
    /\ Rerun
    /\ \E i \in DOMAIN log : log[i] = E("label_action", "ok")
    /\ ret["waitForInstaller"] = "nil"
    /\ Count(log, "get_state") = 1

(***************************************************************************)
(* Claims about the manifests of a local installation, checked under      *)
(* SpecLocal.                                                              *)
(***************************************************************************)
\* Whether a document is a Deployment named kyma-installer.
IsInstaller(doc) == doc.kind = "Deployment" /\ doc.name = "kyma-installer"

\* The positions of the kyma-installer Deployments in a manifest set, and of
\* the Deployments mapstructure.Decode fails on.
InstallerAt(res) == {i \in DOMAIN res : IsInstaller(res[i])}

UndecodableAt(res) == {i \in DOMAIN res : res[i].kind = "Deployment" /\ ~res[i].typed}

Min(S) == CHOOSE x \in S : \A y \in S : x <= y

\* The manifest set installInstallerFromLocalSources aggregated.
Aggregated == locals.called /\ ~locals.loaded.err

\* C12 as stated: an aggregated set without a kyma-installer Deployment makes
\* findInstallerImageName fail with the deployment-missing error and
\* installInstallerFromLocalSources abort before any build, apply and
\* namespace label call.
C12_MissingDeploymentError ==
    (Aggregated /\ InstallerAt(locals.loaded.res) = {}) =>
        /\ locals.found.err = "missing"
        /\ ret["installInstallerFromLocalSources"] = "err"
        /\ Only(log, MutatingCalls) = <<>>

\* C12 amended: an aggregated set without a kyma-installer Deployment makes
\* installInstallerFromLocalSources abort with an error before any build,
\* apply and namespace label call; the error is the deployment-missing one
\* unless the set holds a Deployment that cannot be decoded, whose decode
\* error is returned instead.
C12_MissingDeploymentAborts ==
    (Aggregated /\ InstallerAt(locals.loaded.res) = {}) =>
        /\ locals.found.err = (IF UndecodableAt(locals.loaded.res) = {} THEN "missing" ELSE "decode")
        /\ ret["installInstallerFromLocalSources"] = "err"
        /\ Only(log, MutatingCalls) = <<>>

\* C12 witness: a set of several documents, none the kyma-installer
\* Deployment, ended in the deployment-missing error.
C12_Witness ==
    /\ Aggregated
    /\ Len(locals.loaded.res) >= 2
    /\ InstallerAt(locals.loaded.res) = {}
    /\ locals.found.err = "missing"
    /\ ret["installInstallerFromLocalSources"] = "err"

\* C13 as stated: for every manifest set with a kyma-installer Deployment,
\* findInstallerImageName returns the image of the first container of the
\* first such document in set order, whatever precedes or separates them.
C13_FirstMatch ==
    (Aggregated /\ InstallerAt(locals.loaded.res) # {}) =>
        LET first == locals.loaded.res[Min(InstallerAt(locals.loaded.res))] IN
        first.images # <<>> => locals.found = [image |-> first.images[1], err |-> "nil"]

\* C13 amended: findInstallerImageName returns the image of the first
\* container of the first kyma-installer Deployment in set order, provided
\* that document and every Deployment before it can be decoded; otherwise it
\* returns the decode error of the first Deployment that cannot.
C13_FirstMatchAmongDecodable ==
    (Aggregated /\ InstallerAt(locals.loaded.res) # {}) =>
        LET k     == Min(InstallerAt(locals.loaded.res))
            first == locals.loaded.res[k]
            bad   == {i \in UndecodableAt(locals.loaded.res) : i <= k}
        IN  IF bad # {} THEN locals.found.err = "decode"
            ELSE first.images # <<>> => locals.found = [image |-> first.images[1], err |-> "nil"]

\* C13 witness: two kyma-installer Deployments of different images, another
\* document before them, and the image of the earlier one returned.
C13_Witness ==
    /\ Aggregated
    /\ locals.loaded.res = <<DocOtherDeployment, DocInstaller2, DocInstaller1>>
    /\ locals.found = [image |-> "image2", err |-> "nil"]

\* Whether every fragment file of the tree opens and decodes.
AllValid(tree) ==
    \A f \in 1..3 : tree[f].exists /\ \A i \in DOMAIN tree[f].items : tree[f].items[i] # Malformed

\* C14: when all fragment files are valid, loadLocalResources returns the
\* concatenation of the documents of the three files in file order and
\* in-file order; when any file fails, it returns nil and the error.
C14_AggregationOrder ==
    locals.called =>
        IF AllValid(files)
        THEN locals.loaded = [res |-> files[1].items \o files[2].items \o files[3].items, err |-> FALSE]
        ELSE locals.loaded = [res |-> <<>>, err |-> TRUE]

\* C14 witness: a file of two different documents and another of one were
\* aggregated.
C14_Witness ==
    /\ locals.called
    /\ AllValid(files)
    /\ Len(files[1].items) = 1
    /\ Len(files[2].items) = 2
    /\ files[2].items[1] # files[2].items[2]
    /\ Len(locals.loaded.res) = 3

\* C18: with every cluster read succeeding and the status always one of
\* InProgress, Error and Installed, waitForInstaller eventually returns nil
\* if the status is eventually Installed for good, and never returns as long
\* as the status is never Installed, however many polls that takes.
C18_MonitorLiveness ==
    /\ <>[](installation.state = "Installed") => <>(ret["waitForInstaller"] = "nil")
    /\ [](installation.state # "Installed") => [](ret["waitForInstaller"] = "none")

\* C18 witness: the wait has returned nil out of the poll loop, after a
\* notification was opened.
C18_Witness ==
    /\ ret["waitForInstaller"] = "nil"
    /\ s # Nil
    /\ status = "Installed"

\* C19: in every poll cycle the (state, description) pair the switch of
\* waitForInstaller dispatches on is a content the installation resource has
\* actually held.
C19_ActsOnHeldContent ==
    \A i \in Dispatched(log) :
        [state |-> log[i - 1].arg, description |-> log[i].arg] \in held

====
